---- MODULE Spec2Model ----
(***************************************************************************)
(* Model of the router-api provisioning gateway (src/main.py,              *)
(* src/script_exceptions.py): the /vless and /tailscale request handlers,  *)
(* the VlessCreation helper they construct per request, the typed          *)
(* exceptions and the two exception handlers that serialise a response.    *)
(*                                                                         *)
(* Strings that the code inspects character by character (a MAC address,   *)
(* a roster cell) are sequences of one-character strings; a response body  *)
(* that the code searches for a phrase is a sequence of words.             *)
(***************************************************************************)
EXTENDS Integers, Sequences, FiniteSets, TLC

\* ---------------------------------------------------------------- bounds
MaxLen == 2        \* longest mac_address a request carries
MaxTail == 2       \* roster rows after the header rows
MaxLinks == 2      \* longest "links" list the upstream returns

\* ------------------------------------------------------------- constants
starting_row == 20

Reqs == {"r1", "r2"}

\* ---------------------------------------------------------------- strings
Chars == {"A", "a", "1", ":"}

Strs(n) == UNION {[1..k -> Chars] : k \in 0..n}

\* Lower swapping the case.
Lower_m(c) == IF c = "A" THEN "a" ELSE IF c = "a" THEN "A" ELSE c

\* str.lower() on one character
Lower(c) == IF c = "A" THEN "a" ELSE c

\* str.isalnum() on one character
IsAlnum(c) == c \in {"A", "a", "1"}

LowerStr(s) == [i \in 1..Len(s) |-> Lower(s[i])]

\* "".join(e for e in s.lower() if e.isalnum())
Normalize(s) == SelectSeq(LowerStr(s), IsAlnum)

\* Python truthiness of a str (or of a missing value, modelled as <<>>)
Truthy(s) == Len(s) > 0

\* Contains with the phrase compared to the whole text.
Contains_m(text, phrase) == text = phrase

\* phrase in text, both sequences of words
Contains(text, phrase) ==
    \E i \in 0..(Len(text) - Len(phrase)) :
        SubSeq(text, i + 1, i + Len(phrase)) = phrase

\* SliceFrom starting one row early.
SliceFrom_m(lst, n) == SubSeq(lst, n, Len(lst))

\* lst[n:]
SliceFrom(lst, n) == SubSeq(lst, n + 1, Len(lst))

\* ------------------------------------------------------------ exceptions
\* The names script_exceptions defines (src/script_exceptions.py).
ExcpNames ==
    {"ErrorCode", "VlessCreationException", "CredentialsError",
     "GoogleSheetError", "MacAddressError", "RemnaApiError",
     "ConfigurationError"}

\* A message is <<text, detail>>: the fixed text and what an f-string
\* interpolates into it ("" when nothing is interpolated).
VlessCreationException(message, error_code, status_code) ==
    [typed |-> TRUE, message |-> message, error_code |-> error_code,
     status_code |-> status_code]

\* Any exception that is not a VlessCreationException.
Untyped(cls, text) ==
    [typed |-> FALSE, message |-> <<cls, text>>, error_code |-> "",
     status_code |-> 0]

CredentialsError(message) ==
    VlessCreationException(message, "CREDENTIALS_NOT_FOUND", 500)

\* GoogleSheetError carrying the code of ConfigurationError.
GoogleSheetError_m(message) ==
    VlessCreationException(message, "CONFIGURATION_ERROR", 500)

GoogleSheetError(message) ==
    VlessCreationException(message, "GOOGLE_SHEET_ACCESS_ERROR", 500)

\* MacAddressError with the not_found flag ignored.
MacAddressError_m(message, not_found) ==
    VlessCreationException(message, "INVALID_MAC_ADDRESS", 400)

MacAddressError(message, not_found) ==
    VlessCreationException(message,
        IF not_found THEN "MAC_ADDRESS_NOT_FOUND" ELSE "INVALID_MAC_ADDRESS",
        IF not_found THEN 404 ELSE 400)

\* RemnaApiError without the create_user branch.
RemnaApiError_m(message, operation) ==
    VlessCreationException(message,
        IF operation = "get_vless" THEN "VLESS_LINK_RETRIEVAL_FAILED"
        ELSE "REMNA_API_ERROR",
        502)

RemnaApiError(message, operation) ==
    VlessCreationException(message,
        IF operation = "create_user" THEN "USER_CREATION_FAILED"
        ELSE IF operation = "get_vless" THEN "VLESS_LINK_RETRIEVAL_FAILED"
        ELSE "REMNA_API_ERROR",
        502)

ConfigurationError(message) ==
    VlessCreationException(message, "CONFIGURATION_ERROR", 500)

\* excp.<name>(...): an attribute the module does not define raises
\* AttributeError instead of the exception the call site names.
ExcpAttr(name, exc) ==
    IF name \in ExcpNames THEN exc
    ELSE Untyped("AttributeError", name)

\* Outcome of a call: a returned value or a raised exception.
NoExc == [typed |-> FALSE, message |-> <<"", "">>, error_code |-> "",
          status_code |-> 0]

Return(v) == [raised |-> FALSE, exc |-> NoExc, value |-> v]

Raise(e) == [raised |-> TRUE, exc |-> e, value |-> FALSE]

\* ------------------------------------------------------ VlessCreation
\* ScanRows answering on the first non-empty cell.
RECURSIVE ScanRows_m(_, _, _)
ScanRows_m(rows, i, formatted_input_mac) ==
    IF i > Len(rows) THEN FALSE
    ELSE IF ~Truthy(rows[i]) THEN ScanRows_m(rows, i + 1, formatted_input_mac)
    ELSE Normalize(rows[i]) = formatted_input_mac

\* First index i >= from with a non-empty cell whose normalized form is
\* target; the for loop of check_mac over the sliced column.
RECURSIVE ScanRows(_, _, _)
ScanRows(rows, i, formatted_input_mac) ==
    IF i > Len(rows) THEN FALSE
    ELSE IF ~Truthy(rows[i]) THEN ScanRows(rows, i + 1, formatted_input_mac)
    ELSE IF Normalize(rows[i]) = formatted_input_mac THEN TRUE
    ELSE ScanRows(rows, i + 1, formatted_input_mac)

\* The body of check_mac's try block.
check_mac_try(mac_address, mac_col_values) ==
    LET formatted_input_mac == Normalize(mac_address)
    IN  IF ~Truthy(formatted_input_mac)
        THEN Raise(MacAddressError(<<"Invalid MAC address format", "">>, FALSE))
        ELSE Return(ScanRows(SliceFrom(mac_col_values, starting_row), 1,
                             formatted_input_mac))

\* check_mac: the empty test is outside the try block; whatever the try
\* block raises is caught by "except Exception" and becomes GoogleSheetError.
check_mac(mac_address, mac_col_values) ==
    IF ~Truthy(mac_address)
    THEN Raise(MacAddressError(<<"MAC address cannot be empty", "">>, FALSE))
    ELSE LET r == check_mac_try(mac_address, mac_col_values)
         IN  IF r.raised
             THEN Raise(GoogleSheetError(<<"Error checking MAC address: ",
                                           r.exc.message[1]>>))
             ELSE r

\* create_payload naming the user by the normalized identity.
create_payload_m(mac_address, date_ok) ==
    IF date_ok
    THEN Return([username |-> Normalize(mac_address)])
    ELSE Raise(ConfigurationError(<<"Failed to create payload: ", "date">>))

\* create_payload: the payload carries the mac_address as given; building
\* the expiry date is the only step that can fail.
create_payload(mac_address, date_ok) ==
    IF date_ok
    THEN Return([username |-> mac_address])
    ELSE Raise(ConfigurationError(<<"Failed to create payload: ", "date">>))

\* requests.Response.raise_for_status
RaisesForStatus(status_code) == status_code >= 400 /\ status_code < 600

\* create_user, given the outcome of create_payload and, when the payload
\* was built, the outcome of requests.post.
create_user(payload, reply) ==
    IF payload.raised
    THEN Raise(RemnaApiError(<<"Unexpected error while creating user: ",
                               payload.exc.message[1]>>, "create_user"))
    ELSE IF reply.kind = "timeout"
    THEN Raise(RemnaApiError(<<"Request timeout while creating user", "">>,
                             "create_user"))
    ELSE IF reply.kind = "connection"
    THEN Raise(RemnaApiError(<<"Connection error while creating user", "">>,
                             "create_user"))
    ELSE IF reply.kind = "exception"
    THEN Raise(RemnaApiError(<<"Unexpected error while creating user: ",
                               reply.cause>>, "create_user"))
    ELSE IF reply.status_code = 400
    THEN Return(reply)
    ELSE IF RaisesForStatus(reply.status_code)
    THEN Raise(RemnaApiError(<<"HTTP error while creating user: ",
                               ToString(reply.status_code)>>, "create_user"))
    ELSE Return(reply)

AlreadyExistsPhrase == <<"User", "username", "already", "exists">>

\* vless_accepts with every 400 taken for the conflict.
vless_accepts_m(create_user_response) ==
    IF create_user_response.status_code = 400
    THEN Return(TRUE)
    ELSE IF create_user_response.status_code \notin {200, 201}
    THEN Raise(RemnaApiError(<<"Failed to create user. Status: ",
                               ToString(create_user_response.status_code)>>,
                             "create_user"))
    ELSE Return(TRUE)

\* vless_accepts without the branch for the conflict.
vless_accepts_strict(create_user_response) ==
    IF create_user_response.status_code \notin {200, 201}
    THEN Raise(RemnaApiError(<<"Failed to create user. Status: ",
                               ToString(create_user_response.status_code)>>,
                             "create_user"))
    ELSE Return(TRUE)

\* The test vless applies to the response create_user returned.
vless_accepts(create_user_response) ==
    IF create_user_response.status_code = 400
       /\ Contains(create_user_response.text, AlreadyExistsPhrase)
    THEN Return(TRUE)
    ELSE IF create_user_response.status_code \notin {200, 201}
    THEN Raise(RemnaApiError(<<"Failed to create user. Status: ",
                               ToString(create_user_response.status_code)>>,
                             "create_user"))
    ELSE Return(TRUE)

NoLink == "None"

\* ExtractLink returning the last link.
ExtractLink_m(json) ==
    IF json.kind \in {"nondict", "null_response"}
    THEN Raise(Untyped("AttributeError", "get"))
    ELSE IF json.kind = "links" /\ Len(json.links) > 0
    THEN Return(json.links[Len(json.links)])
    ELSE Return("None")

\* response_data.get("response", {}).get("links") followed by the test on
\* links: the first link, None, or AttributeError when a .get has no dict.
ExtractLink(json) ==
    IF json.kind \in {"nondict", "null_response"}
    THEN Raise(Untyped("AttributeError", "get"))
    ELSE IF json.kind = "links" /\ Len(json.links) > 0
    THEN Return(json.links[1])
    ELSE Return(NoLink)

\* f"{self.remna_base_url}/api/subscriptions/by-username/{mac_address}":
\* the address of the link fetch, the base URL left out.
remna_get_subscription_endpoint(mac_address) ==
    <<"/api/subscriptions/by-username/">> \o mac_address

\* get_vless_link, given the outcome of requests.get.
get_vless_link(reply) ==
    IF reply.kind = "timeout"
    THEN Raise(RemnaApiError(<<"Request timeout while retrieving VLESS link", "">>,
                             "get_vless"))
    ELSE IF reply.kind = "connection"
    THEN Raise(RemnaApiError(<<"Connection error while retrieving VLESS link", "">>,
                             "get_vless"))
    ELSE IF reply.kind = "exception"
    THEN Raise(RemnaApiError(<<"Unexpected error while retrieving VLESS link: ",
                               reply.cause>>, "get_vless"))
    ELSE IF RaisesForStatus(reply.status_code)
    THEN Raise(RemnaApiError(<<"HTTP error while retrieving VLESS link: ",
                               ToString(reply.status_code)>>, "get_vless"))
    ELSE IF reply.json.kind = "invalid"
    THEN Raise(RemnaApiError(<<"Invalid JSON response while retrieving VLESS link", "">>,
                             "get_vless"))
    ELSE LET r == ExtractLink(reply.json)
         IN  IF r.raised
             THEN Raise(RemnaApiError(
                     <<"Unexpected error while retrieving VLESS link: ",
                       r.exc.message[2]>>, "get_vless"))
             ELSE r

\* vless_link_check without the test.
vless_link_check_m(vless_link) == Return(vless_link)

\* The test vless applies to what get_vless_link returned.
vless_link_check(vless_link) ==
    IF vless_link = NoLink \/ vless_link = ""
    THEN Raise(RemnaApiError(<<"No VLESS link available for user", "">>,
                             "get_vless"))
    ELSE Return(vless_link)

\* -------------------------------------------------------------- boundary
\* The except clauses closing vless and tailscale: a typed exception is
\* re-raised, anything else becomes a VlessCreationException.
endpoint_boundary(exc) ==
    IF exc.typed THEN exc
    ELSE VlessCreationException(<<"Internal server error occurred", "">>,
                                "REMNA_API_ERROR", 500)

NoResponse ==
    [kind |-> "none", status_code |-> 0, error |-> <<"", "">>,
     error_code |-> "", body |-> ""]

mac_checker_exception_handler(exc) ==
    [kind |-> "failure", status_code |-> exc.status_code,
     error |-> exc.message, error_code |-> exc.error_code, body |-> ""]

general_exception_handler(exc) ==
    [kind |-> "failure", status_code |-> 500,
     error |-> <<"Internal server error", "">>,
     error_code |-> "INTERNAL_SERVER_ERROR", body |-> ""]

\* FastAPI picks the handler registered for the class of the exception
\* that leaves the endpoint.
ExceptionResponse(exc) ==
    IF exc.typed THEN mac_checker_exception_handler(exc)
    ELSE general_exception_handler(exc)

\* A returned str is sent as the body of a 200 response.
SuccessResponse(body) ==
    [kind |-> "success", status_code |-> 200, error |-> <<"", "">>,
     error_code |-> "", body |-> body]

TailscaleCommand == "--login-server=https://TAILSCALE_BASE_URL --authkey TAILSCALE_AUTH_KEY"

\* tailscale_check without the test on the result of connect_ex.
tailscale_check_m(probe) ==
    IF probe.kind = "timeout"
    THEN Raise(ExcpAttr("TailscaleServerError", NoExc))
    ELSE IF probe.kind = "exception"
    THEN Raise(ExcpAttr("TailscaleServerError", NoExc))
    ELSE Return(TRUE)

\* The availability check of tailscale, given the outcome of connect_ex.
tailscale_check(probe) ==
    IF probe.kind = "timeout"
    THEN Raise(ExcpAttr("TailscaleServerError", NoExc))
    ELSE IF probe.kind = "exception"
    THEN Raise(ExcpAttr("TailscaleServerError", NoExc))
    ELSE IF probe.result # 0
    THEN Raise(ExcpAttr("TailscaleServerError", NoExc))
    ELSE Return(TRUE)

\* ----------------------------------------------------------- environment
Flows == {"vless", "tailscale"}

\* What request.json() yields: not JSON, JSON that is no object, or an
\* object with or without the key mac_address.
RequestData ==
    {[kind |-> k, has_mac |-> FALSE, mac |-> <<>>] : k \in {"badjson", "nondict", "dict"}}
    \cup {[kind |-> "dict", has_mac |-> TRUE, mac |-> m] : m \in Strs(MaxLen)}

\* Cells of the sheet's column: empty, bare, with punctuation, in either case.
RosterCells == {<<>>, <<"a">>, <<"A", ":">>, <<"1">>}

HeaderCells == {<<>>, <<"A">>, <<"1">>}

\* A roster column: starting_row header rows (the last one carrying a cell
\* that may look like an identity) followed by at most MaxTail rows; or a
\* column shorter than the header.
HeaderRows(h) == [i \in 1..starting_row |-> IF i = starting_row THEN h ELSE <<>>]

Tails == UNION {[1..k -> RosterCells] : k \in 0..MaxTail}

Columns ==
    {HeaderRows(h) \o t : h \in HeaderCells, t \in Tails}
    \cup {<<h>> : h \in HeaderCells}

Causes == {"e1", "e2"}

\* Outcomes of VlessCreation(): a setting that is no integer, missing
\* settings, credentials that do not load, a sheet that does not open, or
\* the column of the sheet.
InitOutcomes ==
    {[kind |-> k, cause |-> c, values |-> <<>>] :
        k \in {"bad_days", "missing_config", "credentials", "sheet"}, c \in Causes}
    \cup {[kind |-> "ok", cause |-> "", values |-> v] : v \in Columns}

NoReply == [kind |-> "none", status_code |-> 0, text |-> <<>>, cause |-> ""]

CreateStatuses == {200, 201, 204, 299, 302, 404, 500}

CreateBodies ==
    {<<>>,
     <<"User", "username", "already", "exists">>,
     <<"Error:", "User", "username", "already", "exists", "A019">>,
     <<"User", "already", "exists">>,
     <<"Bad", "request">>}

\* Outcomes of requests.post in create_user: a response (a 400 with any of
\* the bodies, another status with or without the conflict phrase), a
\* timeout, a connection failure or another exception.
CreateReplies ==
    {[kind |-> "response", status_code |-> 400, text |-> b, cause |-> ""] :
        b \in CreateBodies}
    \cup {[kind |-> "response", status_code |-> s, text |-> b, cause |-> ""] :
            s \in CreateStatuses,
            b \in {<<>>, <<"User", "username", "already", "exists">>}}
    \cup {[kind |-> k, status_code |-> 0, text |-> <<>>, cause |-> ""] :
            k \in {"timeout", "connection"}}
    \cup {[kind |-> "exception", status_code |-> 0, text |-> <<>>, cause |-> c] :
            c \in Causes}

LinkVals == {"", "vless://token1", "vless://token2"}

LinkLists == UNION {[1..k -> LinkVals] : k \in 0..MaxLinks}

LinkJson ==
    {[kind |-> k, links |-> <<>>] :
        k \in {"invalid", "nondict", "no_response", "null_response",
               "no_links", "links_other"}}
    \cup {[kind |-> "links", links |-> l] : l \in LinkLists}

NoJson == [kind |-> "none", links |-> <<>>]

NoLinkReply == [kind |-> "none", status_code |-> 0, json |-> NoJson, cause |-> ""]

LinkStatuses == {404, 500}

\* Outcomes of requests.get in get_vless_link: a 200 with any of the
\* bodies, an error status, a timeout, a connection failure or another
\* exception.
LinkReplies ==
    {[kind |-> "response", status_code |-> 200, json |-> j, cause |-> ""] :
        j \in LinkJson}
    \cup {[kind |-> "response", status_code |-> s, json |-> NoJson, cause |-> ""] :
            s \in LinkStatuses}
    \cup {[kind |-> k, status_code |-> 0, json |-> NoJson, cause |-> ""] :
            k \in {"timeout", "connection"}}
    \cup {[kind |-> "exception", status_code |-> 0, json |-> NoJson, cause |-> c] :
            c \in Causes}

NoProbe == [kind |-> "none", result |-> 0]

\* Outcomes of sock.connect_ex: an errno (0 when connected), socket.timeout
\* or another exception.
ProbeOutcomes ==
    {[kind |-> "result", result |-> e] : e \in {0, 11, 111}}
    \cup {[kind |-> k, result |-> 0] : k \in {"timeout", "exception"}}

NoInit == [kind |-> "none", cause |-> "", values |-> <<>>]

\* VlessCreation.__init__, given what the environment and the sheet give.
VlessCreation_init(o) ==
    IF o.kind = "bad_days" THEN Raise(Untyped("ValueError", o.cause))
    ELSE IF o.kind = "missing_config"
    THEN Raise(ConfigurationError(<<"Missing required configuration: ", o.cause>>))
    ELSE IF o.kind = "credentials"
    THEN Raise(CredentialsError(<<"Failed to initialize Google Sheets service: ",
                                  o.cause>>))
    ELSE IF o.kind = "sheet"
    THEN Raise(GoogleSheetError(<<"Failed to access Google Sheet: ", o.cause>>))
    ELSE Return(o.values)

\* endpoint_validate without the presence test on mac_address.
endpoint_validate_m(d) ==
    IF d.kind = "badjson" THEN Raise(Untyped("JSONDecodeError", ""))
    ELSE IF d.kind = "nondict" THEN Raise(Untyped("AttributeError", "get"))
    ELSE Return(d.mac)

\* data = await request.json(); mac_address = data.get("mac_address");
\* the presence test on mac_address.
endpoint_validate(d) ==
    IF d.kind = "badjson" THEN Raise(Untyped("JSONDecodeError", ""))
    ELSE IF d.kind = "nondict" THEN Raise(Untyped("AttributeError", "get"))
    ELSE IF ~Truthy(d.mac)
    THEN Raise(MacAddressError(<<"MAC address is required", "">>, FALSE))
    ELSE Return(d.mac)

\* ----------------------------------------------------------------- state
VARIABLES
    pc,           \* where each request's handler stands
    flow,         \* the endpoint the request was sent to
    data,         \* the parsed request body
    init_reply,   \* what VlessCreation() met (its mac_col_values included)
    create_reply, \* the outcome of requests.post, once create_user has it
    link_reply,   \* the outcome of requests.get, once get_vless_link has it
    probe_reply,  \* the outcome of connect_ex
    calls,        \* the remote calls the handler issued, in order
    raised,       \* the exception that reached the endpoint's except clauses
    response      \* the response sent

vars == <<pc, flow, data, init_reply, create_reply, link_reply, probe_reply,
          calls, raised, response>>

mac_address(r) == data[r].mac

mac_col_values(r) == init_reply[r].values

\* A remote call as logged: the operation and how it names the user (the
\* username of the payload for create_user, the address for get_vless).
Call(op, username) == [op |-> op, username |-> username]

Init ==
    /\ pc = [r \in Reqs |-> "idle"]
    /\ flow = [r \in Reqs |-> "vless"]
    /\ data = [r \in Reqs |-> [kind |-> "dict", has_mac |-> FALSE, mac |-> <<>>]]
    /\ init_reply = [r \in Reqs |-> NoInit]
    /\ create_reply = [r \in Reqs |-> NoReply]
    /\ link_reply = [r \in Reqs |-> NoLinkReply]
    /\ probe_reply = [r \in Reqs |-> NoProbe]
    /\ calls = [r \in Reqs |-> <<>>]
    /\ raised = [r \in Reqs |-> NoExc]
    /\ response = [r \in Reqs |-> NoResponse]

\* An exception leaves the handler: the endpoint's except clauses, then the
\* registered exception handler, produce the response.
Fail(r, exc) ==
    /\ pc' = [pc EXCEPT ![r] = "done"]
    /\ raised' = [raised EXCEPT ![r] = exc]
    /\ response' = [response EXCEPT ![r] = ExceptionResponse(endpoint_boundary(exc))]

\* The handler returns a str.
Succeed(r, body) ==
    /\ pc' = [pc EXCEPT ![r] = "done"]
    /\ response' = [response EXCEPT ![r] = SuccessResponse(body)]
    /\ UNCHANGED raised

\* The handler blocks in a remote call.
Goto(r, p) ==
    /\ pc' = [pc EXCEPT ![r] = p]
    /\ UNCHANGED <<raised, response>>

\* A request arrives: the body is parsed and mac_address tested.
Receive(r, f, d) ==
    /\ pc[r] = "idle"
    /\ flow' = [flow EXCEPT ![r] = f]
    /\ data' = [data EXCEPT ![r] = d]
    /\ LET v == endpoint_validate(d)
       IN  IF v.raised THEN Fail(r, v.exc) ELSE Goto(r, "init")
    /\ UNCHANGED <<init_reply, create_reply, link_reply, probe_reply, calls>>

\* Construct holding back while another request for the same identity has
\* its create call outstanding.
Construct_m(r, o, date_ok) ==
    /\ pc[r] = "init"
    /\ \A q \in Reqs \ {r} :
          ~(pc[q] = "create" /\ Normalize(mac_address(q)) = Normalize(mac_address(r)))
    /\ init_reply' = [init_reply EXCEPT ![r] = o]
    /\ LET init == VlessCreation_init(o)
           chk == check_mac(mac_address(r), o.values)
           payload == create_payload(mac_address(r), date_ok)
           log == IF o.kind \in {"sheet", "ok"}
                  THEN Append(calls[r], Call("roster", <<>>))
                  ELSE calls[r]
       IN  IF init.raised
           THEN Fail(r, init.exc) /\ calls' = [calls EXCEPT ![r] = log]
           ELSE IF chk.raised
           THEN Fail(r, chk.exc) /\ calls' = [calls EXCEPT ![r] = log]
           ELSE IF ~chk.value
           THEN /\ Fail(r, MacAddressError(
                           <<"MAC address not found in Google Sheet", "">>, TRUE))
                /\ calls' = [calls EXCEPT ![r] = log]
           ELSE IF flow[r] = "tailscale"
           THEN /\ Goto(r, "probe")
                /\ calls' = [calls EXCEPT ![r] = Append(log, Call("probe", <<>>))]
           ELSE IF payload.raised
           THEN /\ Fail(r, create_user(payload, NoReply).exc)
                /\ calls' = [calls EXCEPT ![r] = log]
           ELSE /\ Goto(r, "create")
                /\ calls' = [calls EXCEPT ![r] =
                                Append(log, Call("create_user", payload.value.username))]
    /\ UNCHANGED <<flow, data, create_reply, link_reply, probe_reply>>

\* VlessCreation() completes, check_mac runs on the column it fetched and,
\* for an identity found, the handler issues its next remote call:
\* create_user builds its payload and posts it (vless), or the socket
\* connects (tailscale).
Construct(r, o, date_ok) ==
    /\ pc[r] = "init"
    /\ init_reply' = [init_reply EXCEPT ![r] = o]
    /\ LET init == VlessCreation_init(o)
           chk == check_mac(mac_address(r), o.values)
           payload == create_payload(mac_address(r), date_ok)
           log == IF o.kind \in {"sheet", "ok"}
                  THEN Append(calls[r], Call("roster", <<>>))
                  ELSE calls[r]
       IN  IF init.raised
           THEN Fail(r, init.exc) /\ calls' = [calls EXCEPT ![r] = log]
           ELSE IF chk.raised
           THEN Fail(r, chk.exc) /\ calls' = [calls EXCEPT ![r] = log]
           ELSE IF ~chk.value
           THEN /\ Fail(r, MacAddressError(
                           <<"MAC address not found in Google Sheet", "">>, TRUE))
                /\ calls' = [calls EXCEPT ![r] = log]
           ELSE IF flow[r] = "tailscale"
           THEN /\ Goto(r, "probe")
                /\ calls' = [calls EXCEPT ![r] = Append(log, Call("probe", <<>>))]
           ELSE IF payload.raised
           THEN /\ Fail(r, create_user(payload, NoReply).exc)
                /\ calls' = [calls EXCEPT ![r] = log]
           ELSE /\ Goto(r, "create")
                /\ calls' = [calls EXCEPT ![r] =
                                Append(log, Call("create_user", payload.value.username))]
    /\ UNCHANGED <<flow, data, create_reply, link_reply, probe_reply>>

\* CreateReply posting again when create_user raised.
CreateReply_m(r, reply) ==
    /\ pc[r] = "create"
    /\ create_reply' = [create_reply EXCEPT ![r] = reply]
    /\ LET res == create_user(create_payload(mac_address(r), TRUE), reply)
           acc == vless_accepts(res.value)
       IN  IF res.raised
           THEN /\ Goto(r, "create")
                /\ calls' = [calls EXCEPT ![r] =
                                Append(@, Call("create_user", mac_address(r)))]
           ELSE IF acc.raised
           THEN Fail(r, acc.exc) /\ UNCHANGED calls
           ELSE /\ Goto(r, "link")
                /\ calls' = [calls EXCEPT ![r] =
                                Append(@, Call("get_vless",
                                               remna_get_subscription_endpoint(mac_address(r))))]
    /\ UNCHANGED <<flow, data, init_reply, link_reply, probe_reply>>

\* requests.post returns or raises: create_user classifies it, vless tests
\* the response and get_vless_link sends its request.
CreateReply(r, reply) ==
    /\ pc[r] = "create"
    /\ create_reply' = [create_reply EXCEPT ![r] = reply]
    /\ LET res == create_user(create_payload(mac_address(r), TRUE), reply)
           acc == vless_accepts(res.value)
       IN  IF res.raised
           THEN Fail(r, res.exc) /\ UNCHANGED calls
           ELSE IF acc.raised
           THEN Fail(r, acc.exc) /\ UNCHANGED calls
           ELSE /\ Goto(r, "link")
                /\ calls' = [calls EXCEPT ![r] =
                                Append(@, Call("get_vless",
                                               remna_get_subscription_endpoint(mac_address(r))))]
    /\ UNCHANGED <<flow, data, init_reply, link_reply, probe_reply>>

\* LinkReply asking again when the link fetch failed or gave no link.
LinkReply_m(r, reply) ==
    /\ pc[r] = "link"
    /\ link_reply' = [link_reply EXCEPT ![r] = reply]
    /\ LET res == get_vless_link(reply)
           chk == vless_link_check(res.value)
       IN  IF res.raised \/ chk.raised THEN Goto(r, "link")
           ELSE Succeed(r, chk.value)
    /\ UNCHANGED <<flow, data, init_reply, create_reply, probe_reply, calls>>

\* requests.get returns or raises: get_vless_link classifies it and vless
\* returns the link or raises.
LinkReply(r, reply) ==
    /\ pc[r] = "link"
    /\ link_reply' = [link_reply EXCEPT ![r] = reply]
    /\ LET res == get_vless_link(reply)
           chk == vless_link_check(res.value)
       IN  IF res.raised THEN Fail(r, res.exc)
           ELSE IF chk.raised THEN Fail(r, chk.exc)
           ELSE Succeed(r, chk.value)
    /\ UNCHANGED <<flow, data, init_reply, create_reply, probe_reply, calls>>

\* connect_ex returns or raises: tailscale returns the join command or
\* raises.
ProbeReply(r, p) ==
    /\ pc[r] = "probe"
    /\ probe_reply' = [probe_reply EXCEPT ![r] = p]
    /\ LET res == tailscale_check(p)
       IN  IF res.raised THEN Fail(r, res.exc)
           ELSE Succeed(r, TailscaleCommand)
    /\ UNCHANGED <<flow, data, init_reply, create_reply, link_reply, calls>>

\* One request at a time.
Sequential == {"r1"}

Next ==
    \E r \in Sequential :
        \/ \E f \in Flows, d \in RequestData : Receive(r, f, d)
        \/ \E o \in InitOutcomes, date_ok \in BOOLEAN : Construct(r, o, date_ok)
        \/ \E reply \in CreateReplies : CreateReply(r, reply)
        \/ \E reply \in LinkReplies : LinkReply(r, reply)
        \/ \E p \in ProbeOutcomes : ProbeReply(r, p)

Spec == Init /\ [][Next]_vars

\* ------------------------------------------------- requests side by side
\* Two /vless requests in flight at once, each in a worker of its own: a
\* handler holds no lock and shares nothing with the other, so their steps
\* interleave at every remote call.
ConcMacs == {<<"a">>, <<"A", ":">>, <<"1">>}

ConcData == {[kind |-> "dict", has_mac |-> TRUE, mac |-> m] : m \in ConcMacs}

ConcColumn == HeaderRows(<<"1">>) \o << <<"a">> >>

ConcOk == [kind |-> "ok", cause |-> "", values |-> ConcColumn]

ConcInitOutcomes == {[kind |-> "sheet", cause |-> "e1", values |-> <<>>], ConcOk}

\* How the request's call of that operation names the user.
Named(r, op) ==
    IF \E i \in 1..Len(calls[r]) : calls[r][i].op = op
    THEN calls[r][CHOOSE i \in 1..Len(calls[r]) : calls[r][i].op = op].username
    ELSE <<>>

\* An upstream that creates the user on the first create call for a
\* username and answers every later one with the conflict.
UpstreamCreate(r) ==
    IF \E q \in Reqs \ {r} :
          /\ create_reply[q].kind = "response"
          /\ create_reply[q].status_code = 201
          /\ Named(q, "create_user") = Named(r, "create_user")
    THEN [kind |-> "response", status_code |-> 400,
          text |-> <<"User", "username", "already", "exists">>, cause |-> ""]
    ELSE [kind |-> "response", status_code |-> 201, text |-> <<>>, cause |-> ""]

\* The subscription of a username: one link, its own.
UpstreamLinks(r) ==
    [kind |-> "response", status_code |-> 200, cause |-> "",
     json |-> [kind |-> "links",
               links |-> <<IF Named(r, "get_vless") =
                                 remna_get_subscription_endpoint(<<"a">>)
                              THEN "vless://token1"
                           ELSE "vless://token2">>]]

NextConc ==
    \E r \in Reqs :
        \/ \E d \in ConcData : Receive(r, "vless", d)
        \/ \E o \in ConcInitOutcomes : Construct(r, o, TRUE)
        \/ CreateReply(r, UpstreamCreate(r))
        \/ LinkReply(r, UpstreamLinks(r))

SpecConc == Init /\ [][NextConc]_vars

\* Two runs of /vless for one identity and one roster, the upstream
\* answering each as it pleases.
NextPair ==
    \E r \in Reqs :
        \/ Receive(r, "vless", [kind |-> "dict", has_mac |-> TRUE, mac |-> <<"a">>])
        \/ Construct(r, ConcOk, TRUE)
        \/ \E reply \in CreateReplies : CreateReply(r, reply)
        \/ \E reply \in LinkReplies : LinkReply(r, reply)

SpecPair == Init /\ [][NextPair]_vars

\* ------------------------------------------------ requests run to an end
\* Requests to either endpoint, two in flight, where every remote call that
\* was issued comes back: requests.post and requests.get carry timeout=30,
\* the socket settimeout(10), and the roster fetch is taken to return or
\* fail.
LiveData ==
    {[kind |-> "badjson", has_mac |-> FALSE, mac |-> <<>>],
     [kind |-> "dict", has_mac |-> FALSE, mac |-> <<>>],
     [kind |-> "dict", has_mac |-> TRUE, mac |-> <<>>],
     [kind |-> "dict", has_mac |-> TRUE, mac |-> <<"a">>],
     [kind |-> "dict", has_mac |-> TRUE, mac |-> <<"1">>]}

LiveInitOutcomes ==
    ConcInitOutcomes \cup {[kind |-> "missing_config", cause |-> "e1", values |-> <<>>]}

LiveCreateReplies ==
    {reply \in CreateReplies :
        /\ reply.cause # "e2"
        /\ reply.kind = "response" =>
              /\ reply.status_code \in {201, 400, 500}
              /\ reply.text \in {<<>>, <<"User", "username", "already", "exists">>}}

LiveLinkReplies ==
    {reply \in LinkReplies :
        /\ reply.cause # "e2"
        /\ reply.status_code # 500
        /\ reply.json.kind \in {"none", "links"}
        /\ reply.json.links \in {<<>>, <<"vless://token1">>}}

NextLive ==
    \E r \in Reqs :
        \/ \E f \in Flows, d \in LiveData : Receive(r, f, d)
        \/ \E o \in LiveInitOutcomes, date_ok \in BOOLEAN : Construct(r, o, date_ok)
        \/ \E reply \in LiveCreateReplies : CreateReply(r, reply)
        \/ \E reply \in LiveLinkReplies : LinkReply(r, reply)
        \/ \E p \in ProbeOutcomes : ProbeReply(r, p)

\* Each remote call a handler is blocked in eventually returns or fails.
RemoteCallsReturn ==
    \A r \in Reqs :
        /\ WF_vars(\E o \in LiveInitOutcomes, date_ok \in BOOLEAN : Construct(r, o, date_ok))
        /\ WF_vars(\E reply \in LiveCreateReplies : CreateReply(r, reply))
        /\ WF_vars(\E reply \in LiveLinkReplies : LinkReply(r, reply))
        /\ WF_vars(\E p \in ProbeOutcomes : ProbeReply(r, p))

SpecLive == Init /\ [][NextLive]_vars /\ RemoteCallsReturn

\* ---------------------------------------------------------- vocabulary
Done(r) == pc[r] = "done"

RosterLoaded(r) == init_reply[r].kind = "ok"

Issued(r, op) == \E i \in 1..Len(calls[r]) : calls[r][i].op = op

\* Some non-empty cell at or after the start offset has the normalized
\* form of m.
HasMatch(m, column) ==
    \E i \in (starting_row + 1)..Len(column) :
        /\ column[i] # <<>>
        /\ Normalize(column[i]) = Normalize(m)

FailedWith(r, error_code, status_code) ==
    /\ Done(r)
    /\ response[r].kind = "failure"
    /\ response[r].error_code = error_code
    /\ response[r].status_code = status_code
    /\ response[r].body = ""

Unauthorized(r) ==
    /\ pc[r] \notin {"idle", "init"}
    /\ RosterLoaded(r)
    /\ Truthy(Normalize(mac_address(r)))
    /\ ~HasMatch(mac_address(r), mac_col_values(r))

\* C1: in both flows, a request whose identity (its normalized form) is
\* non-empty and has no match in the loaded roster from the start offset
\* onward is answered MAC_ADDRESS_NOT_FOUND/404 with no credential, and no
\* create-user call, link fetch or probe is issued for it.
C1_NotFoundNoCalls ==
    \A r \in Reqs :
        Unauthorized(r) =>
            /\ FailedWith(r, "MAC_ADDRESS_NOT_FOUND", 404)
            /\ ~Issued(r, "create_user")
            /\ ~Issued(r, "get_vless")
            /\ ~Issued(r, "probe")

C1_Witness ==
    \E r \in Reqs :
        /\ Unauthorized(r)
        /\ flow[r] = "tailscale"
        /\ Len(mac_col_values(r)) > starting_row
        /\ mac_col_values(r)[starting_row + 1] # <<>>
        /\ Done(r)

\* C2: a request whose mac_address is missing, empty or made only of
\* non-alphanumeric characters ends with INVALID_MAC_ADDRESS/400.
C2_InvalidMac ==
    \A r \in Reqs :
        ( /\ Done(r)
          /\ data[r].kind = "dict"
          /\ \/ ~Truthy(mac_address(r))
             \/ RosterLoaded(r) /\ ~Truthy(Normalize(mac_address(r))) )
        => FailedWith(r, "INVALID_MAC_ADDRESS", 400)

\* Some stretch of words of text is phrase.
Occurs(phrase, text) ==
    \E i \in 0..Len(text), j \in 0..Len(text) :
        i <= j /\ SubSeq(text, i + 1, j) = phrase

ConflictReply(r, phrase) ==
    /\ create_reply[r].kind = "response"
    /\ create_reply[r].status_code = 400
    /\ Occurs(phrase, create_reply[r].text)

ReachedLink(r) ==
    /\ Issued(r, "get_vless")
    /\ ~(Done(r) /\ response[r].error_code = "USER_CREATION_FAILED")

\* C3 as stated: a create-user reply of 400 whose body contains
\* "already exists" lets the request go on to the link fetch.
C3_AnyAlreadyExists ==
    \A r \in Reqs : ConflictReply(r, <<"already", "exists">>) => ReachedLink(r)

\* C3: a create-user reply of 400 whose body contains "User username
\* already exists" does not fail the request at the create step: the link
\* fetch is issued.
C3_ConflictContinues ==
    \A r \in Reqs :
        ConflictReply(r, <<"User", "username", "already", "exists">>)
            => ReachedLink(r)

C3_Witness ==
    \E r \in Reqs :
        /\ ConflictReply(r, <<"User", "username", "already", "exists">>)
        /\ Len(create_reply[r].text) > 4
        /\ pc[r] = "link"

\* C4: when the create-user call times out, cannot connect or raises any
\* other exception, the request ends with USER_CREATION_FAILED/502 and the
\* link fetch is never issued.
C4_CreateCallFails ==
    \A r \in Reqs :
        create_reply[r].kind \in {"timeout", "connection", "exception"} =>
            /\ FailedWith(r, "USER_CREATION_FAILED", 502)
            /\ ~Issued(r, "get_vless")

C4_Witness ==
    \E r \in Reqs :
        /\ create_reply[r].kind = "timeout"
        /\ Issued(r, "create_user")
        /\ Done(r)

\* C5: every create-user reply with a status from 200 through 299 is a
\* success: the request goes on to the link fetch and does not end with
\* USER_CREATION_FAILED.
C5_Every2xxSucceeds ==
    \A r \in Reqs :
        ( /\ create_reply[r].kind = "response"
          /\ create_reply[r].status_code \in 200..299 )
        => ReachedLink(r)

\* C6: a create-user reply of 400 without the user-already-exists body, or
\* of any other status outside 200..299, ends the request with
\* USER_CREATION_FAILED/502 and no link fetch.
C6_HardFailure ==
    \A r \in Reqs :
        ( /\ create_reply[r].kind = "response"
          /\ create_reply[r].status_code \notin 200..299
          /\ ~ConflictReply(r, <<"User", "username", "already", "exists">>) )
        => /\ FailedWith(r, "USER_CREATION_FAILED", 502)
           /\ ~Issued(r, "get_vless")

C6_Witness ==
    \E r \in Reqs :
        /\ create_reply[r].kind = "response"
        /\ create_reply[r].status_code = 400
        /\ create_reply[r].text = <<"Bad", "request">>
        /\ Done(r)

\* C7: a /vless request is answered with a success body only if the
\* identity is in the roster, the create-user reply was a 2xx or the
\* already-exists conflict, and the link fetch returned a non-empty list;
\* the body is then the first element of that list.
C7_SuccessIsFirstLink ==
    \A r \in Reqs :
        (flow[r] = "vless" /\ response[r].kind = "success") =>
            /\ RosterLoaded(r)
            /\ HasMatch(mac_address(r), mac_col_values(r))
            /\ create_reply[r].kind = "response"
            /\ \/ create_reply[r].status_code \in 200..299
               \/ ConflictReply(r, <<"User", "username", "already", "exists">>)
            /\ link_reply[r].kind = "response"
            /\ link_reply[r].json.kind = "links"
            /\ Len(link_reply[r].json.links) > 0
            /\ response[r].body = link_reply[r].json.links[1]

C7_Witness ==
    \E r \in Reqs :
        /\ flow[r] = "vless"
        /\ response[r].kind = "success"
        /\ Len(link_reply[r].json.links) > 1
        /\ link_reply[r].json.links[2] # link_reply[r].json.links[1]
        /\ mac_address(r) # Normalize(mac_address(r))

\* The link fetch failed or produced no list of links.
LinkAbsentOrFailed(r) ==
    \/ link_reply[r].kind \in {"timeout", "connection", "exception"}
    \/ /\ link_reply[r].kind = "response"
       /\ \/ link_reply[r].status_code \notin 200..299
          \/ link_reply[r].json.kind \in
                {"invalid", "nondict", "no_response", "null_response",
                 "no_links", "links_other"}
          \/ link_reply[r].json.kind = "links" /\ link_reply[r].json.links = <<>>

\* C8: when the link fetch returns no link (an empty or missing list) or
\* fails in any way (timeout, connection, HTTP error, malformed JSON,
\* anything else), the request ends with VLESS_LINK_RETRIEVAL_FAILED/502 and
\* no credential.
C8_LinkFailure ==
    \A r \in Reqs :
        LinkAbsentOrFailed(r) => FailedWith(r, "VLESS_LINK_RETRIEVAL_FAILED", 502)

C8_Witness ==
    \E r \in Reqs :
        /\ link_reply[r].kind = "response"
        /\ link_reply[r].json.kind = "links"
        /\ link_reply[r].json.links = <<>>
        /\ create_reply[r].status_code = 400
        /\ Done(r)

\* What either endpoint answers when an exception it does not know reaches
\* its boundary, and what the handler for plain exceptions answers.
InternalErrorResponses ==
    {ExceptionResponse(endpoint_boundary(Untyped("", ""))),
     general_exception_handler(Untyped("", ""))}

\* C9: in the Tailscale flow, a probe that times out or finds the host
\* unreachable is answered with a typed server-unavailable error that
\* differs from the internal-error response, and no join command.
C9_BackendUnavailable ==
    \A r \in Reqs :
        ( /\ flow[r] = "tailscale"
          /\ \/ probe_reply[r].kind = "timeout"
             \/ probe_reply[r].kind = "result" /\ probe_reply[r].result # 0 )
        => /\ Done(r)
           /\ response[r].kind = "failure"
           /\ response[r].body = ""
           /\ raised[r].typed
           /\ response[r] \notin InternalErrorResponses

\* C10: an exception that is not a typed one, raised during either flow,
\* is answered with INTERNAL_SERVER_ERROR/500.
C10_InternalServerError ==
    \A r \in Reqs :
        (Done(r) /\ response[r].kind = "failure" /\ ~raised[r].typed)
            => FailedWith(r, "INTERNAL_SERVER_ERROR", 500)

\* The rows of the error table: every error code with its one status.
ErrorTable ==
    {<<"CREDENTIALS_NOT_FOUND", 500>>, <<"GOOGLE_SHEET_ACCESS_ERROR", 500>>,
     <<"MAC_ADDRESS_NOT_FOUND", 404>>, <<"INVALID_MAC_ADDRESS", 400>>,
     <<"USER_CREATION_FAILED", 502>>, <<"VLESS_LINK_RETRIEVAL_FAILED", 502>>,
     <<"REMNA_API_ERROR", 502>>, <<"CONFIGURATION_ERROR", 500>>,
     <<"INTERNAL_SERVER_ERROR", 500>>}

\* C11: every failure response carries an (error_code, status) pair that is
\* a row of the error table; REMNA_API_ERROR in particular only with 502.
C11_ClosedErrorTable ==
    \A r \in Reqs :
        response[r].kind = "failure" =>
            <<response[r].error_code, response[r].status_code>> \in ErrorTable

CallCount(r, op) ==
    Cardinality({i \in 1..Len(calls[r]) : calls[r][i].op = op})

\* A remote call of the request failed: the sheet did not open, the create
\* call or the link fetch raised or came back with an error status other
\* than the conflict, the probe did not connect.
RemoteFailure(r) ==
    \/ init_reply[r].kind = "sheet"
    \/ create_reply[r].kind \in {"timeout", "connection", "exception"}
    \/ /\ create_reply[r].kind = "response"
       /\ create_reply[r].status_code >= 400
       /\ ~ConflictReply(r, <<"User", "username", "already", "exists">>)
    \/ link_reply[r].kind \in {"timeout", "connection", "exception"}
    \/ link_reply[r].kind = "response" /\ link_reply[r].status_code >= 400
    \/ probe_reply[r].kind \in {"timeout", "exception"}
    \/ probe_reply[r].kind = "result" /\ probe_reply[r].result # 0

\* C12: within one request each remote call is issued at most once, and
\* the first failure of a remote call ends the request with an error.
C12_NoRetry ==
    \A r \in Reqs :
        /\ \A op \in {"roster", "create_user", "get_vless", "probe"} :
              CallCount(r, op) <= 1
        /\ RemoteFailure(r) => (Done(r) /\ response[r].kind = "failure")

C12_Witness ==
    \E r \in Reqs :
        /\ create_reply[r].kind = "connection"
        /\ CallCount(r, "create_user") = 1
        /\ Done(r)
        /\ response[r].kind = "failure"

\* C13: a /tailscale request never issues the create-user call or the link
\* fetch, and it is answered with the join command only after the identity
\* was found in the roster and the probe connected.
C13_TailscaleNoProvisioning ==
    \A r \in Reqs :
        (flow[r] = "tailscale" /\ pc[r] # "idle") =>
            /\ ~Issued(r, "create_user")
            /\ ~Issued(r, "get_vless")
            /\ response[r].kind = "success" =>
                  /\ RosterLoaded(r)
                  /\ HasMatch(mac_address(r), mac_col_values(r))
                  /\ probe_reply[r].kind = "result"
                  /\ probe_reply[r].result = 0
                  /\ response[r].body = TailscaleCommand

C13_Witness ==
    \E r \in Reqs :
        /\ flow[r] = "tailscale"
        /\ response[r].kind = "success"
        /\ Issued(r, "probe")

\* Lowercase, alphanumerics only, character by character.
RECURSIVE RefNorm(_)
RefNorm(s) ==
    IF s = <<>> THEN <<>>
    ELSE (IF Head(s) = ":" THEN <<>>
          ELSE IF Head(s) = "A" THEN <<"a">>
          ELSE <<Head(s)>>) \o RefNorm(Tail(s))

SameIdentity(a, b) == a # <<>> /\ RefNorm(a) = RefNorm(b)

\* check_mac ran on a loaded column for an input with an identity.
Checked(r) ==
    /\ pc[r] \notin {"idle", "init"}
    /\ RosterLoaded(r)
    /\ RefNorm(mac_address(r)) # <<>>

\* check_mac returned false, true.
CheckedFalse(r) == FailedWith(r, "MAC_ADDRESS_NOT_FOUND", 404)

CheckedTrue(r) == Checked(r) /\ ~CheckedFalse(r)

MatchAt(r, i) == SameIdentity(mac_col_values(r)[i], mac_address(r))

\* C14: an entry before the start offset is never matched (an input whose
\* only match lies there is not found), and every entry from the start
\* offset to the end of the column is scanned.
C14_OffsetRespected ==
    \A r \in Reqs :
        Checked(r) =>
            LET n == Len(mac_col_values(r))
            IN  /\ (\A i \in (starting_row + 1)..n : ~MatchAt(r, i))
                      => CheckedFalse(r)
                /\ (n > starting_row /\ MatchAt(r, starting_row + 1))
                      => CheckedTrue(r)
                /\ (n > starting_row /\ MatchAt(r, n)) => CheckedTrue(r)

C14_Witness ==
    \E r \in Reqs :
        /\ Checked(r)
        /\ Len(mac_col_values(r)) > starting_row
        /\ MatchAt(r, starting_row)
        /\ \A i \in (starting_row + 1)..Len(mac_col_values(r)) : ~MatchAt(r, i)
        /\ CheckedFalse(r)

\* C15: for an input with a non-empty normalized form, check_mac returns
\* true exactly when some non-empty entry at or after the start offset has
\* the same normalized form, whatever the case, punctuation, order or
\* repetition of the entries.
C15_MembershipIffMatch ==
    \A r \in Reqs :
        Checked(r) =>
            (CheckedTrue(r) <=>
                \E i \in (starting_row + 1)..Len(mac_col_values(r)) : MatchAt(r, i))

C15_Witness ==
    \E r \in Reqs :
        /\ CheckedTrue(r)
        /\ Len(mac_col_values(r)) = starting_row + 2
        /\ mac_col_values(r)[starting_row + 1] # <<>>
        /\ ~MatchAt(r, starting_row + 1)
        /\ MatchAt(r, starting_row + 2)
        /\ mac_col_values(r)[starting_row + 2] # mac_address(r)

\* C18: normalization is idempotent on every input and on every roster
\* entry check_mac normalizes.
C18_NormalizeIdempotent ==
    \A r \in Reqs :
        /\ Normalize(Normalize(mac_address(r))) = Normalize(mac_address(r))
        /\ \A i \in 1..Len(mac_col_values(r)) :
              Normalize(Normalize(mac_col_values(r)[i]))
                  = Normalize(mac_col_values(r)[i])

C18_Witness ==
    \E r \in Reqs :
        /\ pc[r] \notin {"idle", "init"}
        /\ RosterLoaded(r)
        /\ Len(mac_address(r)) = 2
        /\ Len(Normalize(mac_address(r))) = 1
        /\ Normalize(mac_address(r)) # SelectSeq(mac_address(r), IsAlnum)

\* C16 as stated: a failure to open the roster source is fatal and not the
\* outcome of one request after which the service goes on: once a request
\* was answered with it, no request fetches the roster again.
C16_FatalNotPerRequest ==
    [][\A r \in Reqs, q \in Reqs :
          (init_reply[r].kind = "sheet" /\ Done(r))
              => init_reply'[q].kind = init_reply[q].kind]_vars

\* C16: a failure to open the roster source is the outcome of the request
\* whose VlessCreation() met it, GOOGLE_SHEET_ACCESS_ERROR/500 after the
\* fetch was tried, and it stops no other request from fetching the roster.
C16_PerRequestSheetError ==
    \A r \in Reqs :
        init_reply[r].kind = "sheet" =>
            /\ FailedWith(r, "GOOGLE_SHEET_ACCESS_ERROR", 500)
            /\ calls[r] = <<Call("roster", <<>>)>>
            /\ \A q \in Reqs \ {r} :
                  pc[q] = "init" => ENABLED Construct(q, ConcOk, TRUE)

C16_Witness ==
    \E r \in Reqs, q \in Reqs :
        /\ init_reply[r].kind = "sheet"
        /\ Done(r)
        /\ init_reply[q].kind = "ok"
        /\ response[q].kind = "success"

\* The request passed the membership check.
Authorized(r) ==
    /\ pc[r] \notin {"idle", "init"}
    /\ RosterLoaded(r)
    /\ HasMatch(mac_address(r), mac_col_values(r))

SameButText(a, b) == a.kind = b.kind /\ a.status_code = b.status_code

\* The run met a failure the code did not anticipate: an exception of no
\* named class in a remote call, or an HTTP error status.
UnexpectedFailure(r) ==
    \/ create_reply[r].kind = "exception"
    \/ create_reply[r].kind = "response" /\ create_reply[r].status_code > 400
    \/ link_reply[r].kind = "exception"

\* C17: two runs that differ only in the text of an unexpected exception or
\* of an upstream response body are answered alike (message, error code,
\* status).
C17_ResponseHidesCause ==
    \A r \in Reqs, q \in Reqs :
        ( /\ Done(r) /\ Done(q)
          /\ flow[r] = flow[q] /\ data[r] = data[q]
          /\ init_reply[r] = init_reply[q]
          /\ UnexpectedFailure(r)
          /\ SameButText(create_reply[r], create_reply[q])
          /\ link_reply[r].kind = link_reply[q].kind
          /\ link_reply[r].status_code = link_reply[q].status_code
          /\ link_reply[r].json = link_reply[q].json )
        => response[r] = response[q]

\* The response is a credential string alone or an error envelope alone.
OneResponse(r) ==
    \/ /\ response[r].kind = "success"
       /\ response[r].status_code = 200
       /\ response[r].body # ""
       /\ response[r].error_code = ""
       /\ response[r].error = <<"", "">>
    \/ /\ response[r].kind = "failure"
       /\ response[r].status_code >= 400
       /\ response[r].error_code # ""
       /\ response[r].body = ""

\* C21: when every remote call returns a result or a failure, each request
\* received on /vless or /tailscale eventually ends; it ends with one
\* response, a credential string or an error envelope and never both, no
\* response is sent before it ends, and none is sent or changed after.
C21_EndsWithOneResponse ==
    /\ \A r \in Reqs : (pc[r] # "idle") ~> Done(r)
    /\ [](\A r \in Reqs : IF Done(r) THEN OneResponse(r)
                          ELSE response[r] = NoResponse)
    /\ [][\A r \in Reqs : Done(r) => response'[r] = response[r] /\ Done(r)']_vars

C21_Witness ==
    \E r \in Reqs, q \in Reqs :
        /\ flow[r] = "vless" /\ Done(r) /\ link_reply[r].kind # "none"
        /\ response[r].kind = "success"
        /\ flow[q] = "tailscale" /\ Done(q) /\ probe_reply[q].kind # "none"
        /\ response[q].kind = "failure"

\* The request's log of remote calls up to and including its i-th.
OpAt(r, i) == calls[r][i].op

\* C22: the steps of a request come in one order. A request whose
\* mac_address is missing or empty is rejected with nothing fetched and no
\* remote call issued; the roster fetch is the first remote call and is made
\* only for a present mac_address; the create-user call or the probe is the
\* second and is issued only after the roster was loaded and the identity
\* found in it; the link fetch is the third and is issued only after the
\* create-user call returned.
C22_StepsOrdered ==
    \A r \in Reqs :
        /\ (pc[r] # "idle" /\ mac_address(r) = <<>>) =>
              /\ Done(r)
              /\ response[r].kind = "failure"
              /\ calls[r] = <<>>
              /\ init_reply[r] = NoInit
        /\ \A i \in 1..Len(calls[r]) :
              /\ OpAt(r, i) = "roster" => i = 1 /\ mac_address(r) # <<>>
              /\ OpAt(r, i) \in {"create_user", "probe"} =>
                    /\ i = 2
                    /\ OpAt(r, 1) = "roster"
                    /\ RosterLoaded(r)
                    /\ HasMatch(mac_address(r), mac_col_values(r))
              /\ OpAt(r, i) = "get_vless" =>
                    /\ i = 3
                    /\ OpAt(r, 2) = "create_user"
                    /\ create_reply[r].kind # "none"
        /\ init_reply[r].kind \in {"sheet", "ok"} => Issued(r, "roster")
        /\ create_reply[r].kind # "none" => Issued(r, "create_user")
        /\ link_reply[r].kind # "none" => Issued(r, "get_vless")
        /\ probe_reply[r].kind # "none" => Issued(r, "probe")

C22_Witness ==
    \E r \in Reqs, q \in Reqs :
        /\ Done(r)
        /\ Len(calls[r]) = 3
        /\ link_reply[r].kind # "none"
        /\ Done(q)
        /\ data[q].kind = "dict"
        /\ mac_address(q) = <<>>
        /\ response[q].error_code = "INVALID_MAC_ADDRESS"

\* The username a link-fetch address ends in.
ByUsername(url) == Tail(url)

\* C23: within a /vless request the create-user payload and the address of
\* the link fetch name the user by the same string, the mac_address as
\* received and not its normalized form; so of two authorized requests whose
\* mac_address differ as strings and agree once normalized, each names a
\* user of its own upstream and neither is answered with the other's
\* conflict.
C23_RawUsername ==
    \A r \in Reqs :
        /\ \A i \in 1..Len(calls[r]) :
              /\ OpAt(r, i) = "create_user" => calls[r][i].username = mac_address(r)
              /\ OpAt(r, i) = "get_vless" =>
                    /\ calls[r][i].username[1] = "/api/subscriptions/by-username/"
                    /\ ByUsername(calls[r][i].username) = mac_address(r)
        /\ \A q \in Reqs :
              ( /\ Authorized(r) /\ Authorized(q)
                /\ mac_address(r) # mac_address(q)
                /\ RefNorm(mac_address(r)) = RefNorm(mac_address(q))
                /\ create_reply[q].kind = "response"
                /\ create_reply[q].status_code = 201 )
              => /\ Named(r, "create_user") # Named(q, "create_user")
                 /\ create_reply[r].kind = "response" =>
                       create_reply[r].status_code = 201
                 /\ (Issued(r, "get_vless") /\ Issued(q, "get_vless")) =>
                       Named(r, "get_vless") # Named(q, "get_vless")

C23_Witness ==
    \E r \in Reqs, q \in Reqs :
        /\ mac_address(r) = <<"a">>
        /\ mac_address(q) = <<"A", ":">>
        /\ Authorized(r) /\ Authorized(q)
        /\ create_reply[r].status_code = 201
        /\ create_reply[q].status_code = 201
        /\ Named(q, "create_user") = <<"A", ":">>
        /\ ByUsername(Named(q, "get_vless")) = <<"A", ":">>
        /\ response[r].kind = "success"
        /\ response[q].kind = "success"

====
